---- MODULE Spec2Model ----
(***************************************************************************)
(* Model of the architectural decision detector                            *)
(* (src/utils/architectural-decision-detector.ts) and of the MCP-safe      *)
(* Logger.                                                                 *)
(*                                                                         *)
(* The detector's functions are pure; the state of the model is the        *)
(* ChangeAnalysis a caller has assembled together with the value each      *)
(* function returned for it.  The Logger's state is the process            *)
(* environment and the two output streams.                                 *)
(***************************************************************************)
EXTENDS Integers, Sequences, FiniteSets, TLC

VARIABLES analysis, criteria, likely, context,
          partial, likelyPartial,
          filePath, significant,
          env, stdout, stderr, lastCall

vars == <<analysis, criteria, likely, context, partial, likelyPartial,
          filePath, significant, env, stdout, stderr, lastCall>>

scoreVars == <<analysis, criteria, likely, context>>
partialVars == <<partial, likelyPartial>>
pathVars == <<filePath, significant>>
logVars == <<env, stdout, stderr, lastCall>>

\* Bounds of the model.
MaxFiles == 3
MaxConcepts == 10
MaxDependents == 5
MaxPatterns == 2

\* The value of an output variable before its function has been called.
NotCalled == [called |-> FALSE]

-----------------------------------------------------------------------------
(***************************************************************************)
(* IEEE-754 double arithmetic on the values the scorer can produce.        *)
(*                                                                         *)
(* A double x is held exactly as x = cent/100 + err * 2^-55 / 100: cent is *)
(* the decimal number of hundredths the source literal or sum stands for,  *)
(* err the (signed) distance of the double from that decimal, in units of  *)
(* 2^-55/100.  Every double in [1/8, 2) is a multiple of 2^-55, so the     *)
(* representation loses nothing.  In these units the doubles of a binade   *)
(* with ulp 2^-k are the multiples of 100 * 2^(55-k).                      *)
(***************************************************************************)
RECURSIVE Pow2Mod(_, _)
Pow2Mod(n, m) == IF n = 0 THEN 1 % m ELSE (2 * Pow2Mod(n - 1, m)) % m

\* 1/100 in units of 2^-55/100 is 2^55; only its residue modulo twice the
\* coarsest grid (2 * 800) is ever needed.
CentResidue == Pow2Mod(55, 1600)

\* Spacing of the doubles around cent/100 + err, in units of 2^-55/100.
Grid(cent, err) ==
  LET Below(b) == cent < b \/ (cent = b /\ err < 0)
  IN  IF Below(25) THEN 100
      ELSE IF Below(50) THEN 200
      ELSE IF Below(100) THEN 400
      ELSE 800

\* Round-to-nearest, ties-to-even, of the exact real cent/100 + err.
RoundNearestEven(cent, err) ==
  IF cent = 0 /\ err = 0 THEN [cent |-> 0, err |-> 0]
  ELSE LET G == Grid(cent, err)
           r == (cent * CentResidue + err) % G
           down == [cent |-> cent, err |-> err - r]
           up == [cent |-> cent, err |-> err + G - r]
       IN  IF 2 * r < G THEN down
           ELSE IF 2 * r > G THEN up
           ELSE IF (cent * CentResidue + err - r) % (2 * G) = 0 THEN down
           ELSE up

\* The double a decimal literal with `cent` hundredths denotes (0.3 is Lit(30)).
Lit(cent) == RoundNearestEven(cent, 0)

\* a + b on doubles.
FAdd(a, b) == RoundNearestEven(a.cent + b.cent, a.err + b.err)

\* a >= b on doubles.
FGe(a, b) == a.cent > b.cent \/ (a.cent = b.cent /\ a.err >= b.err)

\* Math.min(a, b).
FMin(a, b) == IF FGe(a, b) THEN b ELSE a

-----------------------------------------------------------------------------
(***************************************************************************)
(* ChangeAnalysis                                                          *)
(***************************************************************************)
\* The functions read the lengths of the three lists and join the pattern
\* names; one name of each kind is enough to build lists of every length.
FileNames == {"a.ts"}
ConceptNames == {"c"}
PatternNames == {"Factory"}
Scopes == {"file", "module", "project"}

SeqsUpTo(S, n) == UNION {[1..k -> S] : k \in 0..n}

ChangeAnalysis ==
  [affectedFiles : SeqsUpTo(FileNames, MaxFiles),
   affectedConcepts : SeqsUpTo(ConceptNames, MaxConcepts),
   scope : Scopes,
   patternChanges : SeqsUpTo(PatternNames, MaxPatterns),
   dependentsCount : 0..MaxDependents,
   breakingChanges : BOOLEAN,
   configurationChanges : BOOLEAN]

-----------------------------------------------------------------------------
(***************************************************************************)
(* assessArchitecturalDecision                                             *)
(***************************************************************************)
\* reasons.push(reason); confidence += weight
Trigger(s, reason, weight) ==
  [reasons |-> Append(s.reasons, reason),
   confidence |-> FAdd(s.confidence, weight)]

\* Criterion 1: File Impact (3+ files)
FileImpact(a, s) ==
  IF Len(a.affectedFiles) >= 3
  THEN Trigger(s, "Affects " \o ToString(Len(a.affectedFiles)) \o " files", Lit(30))
  ELSE s

\* Criterion 2: Concept Impact (10+ concepts)
ConceptImpact(a, s) ==
  IF Len(a.affectedConcepts) >= 10
  THEN Trigger(s, "Affects " \o ToString(Len(a.affectedConcepts))
                    \o " semantic concepts", Lit(25))
  ELSE s

\* Mutant: the module branch not in an else, so a project-wide change also
\* counts as module-wide.
ProjectScopeNoElse(a, s) ==
  LET t == IF a.scope = "project"
           THEN Trigger(s, "Project-wide scope detected", Lit(30))
           ELSE s
  IN  IF a.scope \in {"module", "project"}
      THEN Trigger(t, "Module-wide scope detected", Lit(15))
      ELSE t

\* Mutant: the weights of the two scopes exchanged.
ProjectScopeSwapped(a, s) ==
  IF a.scope = "project" THEN Trigger(s, "Project-wide scope detected", Lit(15))
  ELSE IF a.scope = "module" THEN Trigger(s, "Module-wide scope detected", Lit(30))
  ELSE s

\* Criterion 3: Project Scope
ProjectScope(a, s) ==
  IF a.scope = "project" THEN Trigger(s, "Project-wide scope detected", Lit(30))
  ELSE IF a.scope = "module" THEN Trigger(s, "Module-wide scope detected", Lit(15))
  ELSE s

\* Criterion 4: Dependency Impact (5+ dependents)
DependencyImpact(a, s) ==
  IF a.dependentsCount >= 5
  THEN Trigger(s, "Affects " \o ToString(a.dependentsCount) \o " dependent files",
               Lit(20))
  ELSE s

\* Criterion 5: Pattern Changes
PatternChanges(a, s) ==
  IF Len(a.patternChanges) > 0
  THEN Trigger(s, "Introduces " \o ToString(Len(a.patternChanges))
                    \o " pattern changes", Lit(25))
  ELSE s

\* Criterion 6: Breaking Changes
BreakingChanges(a, s) ==
  IF a.breakingChanges THEN Trigger(s, "Contains breaking changes", Lit(20)) ELSE s

\* Criterion 7: Configuration Changes
ConfigurationChanges(a, s) ==
  IF a.configurationChanges
  THEN Trigger(s, "Modifies project configuration", Lit(15))
  ELSE s

\* The local variables reasons and confidence after the seven criteria.
Accumulate(a) ==
  ConfigurationChanges(a,
    BreakingChanges(a,
      PatternChanges(a,
        DependencyImpact(a,
          ProjectScope(a,
            ConceptImpact(a,
              FileImpact(a, [reasons |-> <<>>, confidence |-> Lit(0)])))))))

\* Mutant: the threshold compared with > instead of >=.
IsArchitecturalStrict(confidence) ==
  FGe(confidence, Lit(40)) /\ confidence # Lit(40)

\* const isArchitectural = confidence >= 0.4
IsArchitectural(confidence) == FGe(confidence, Lit(40))

\* The recommendation chosen from the (unclamped) confidence.
Recommend(confidence) ==
  IF IsArchitectural(confidence) THEN "record"
  ELSE IF FGe(confidence, Lit(20)) THEN "use_project_decision"
  ELSE "skip"

\* Mutant: the clamp left out.
ClampMissing(confidence) == confidence

\* confidence: Math.min(1.0, confidence)
Clamp(confidence) == FMin(Lit(100), confidence)

assessArchitecturalDecision(a) ==
  LET s == Accumulate(a)
  IN  [called |-> TRUE,
       isArchitectural |-> IsArchitectural(s.confidence),
       confidence |-> Clamp(s.confidence),
       reasons |-> s.reasons,
       recommendation |-> Recommend(s.confidence)]

-----------------------------------------------------------------------------
(***************************************************************************)
(* JavaScript values, as far as isLikelyArchitectural handles them.        *)
(***************************************************************************)
Undefined == [t |-> "undefined"]
JsBool(b) == [t |-> "boolean", b |-> b]
JsNum(n) == [t |-> "number", n |-> n]
JsStr(s) == [t |-> "string", s |-> s]
JsArr(a) == [t |-> "object", a |-> a]

Fields == {"affectedFiles", "affectedConcepts", "scope", "patternChanges",
           "dependentsCount", "breakingChanges", "configurationChanges"}

\* analysis.<f>: the property's value, undefined when the property is absent.
Get(p, f) ==
  IF f \notin DOMAIN p THEN Undefined
  ELSE IF f \in {"affectedFiles", "affectedConcepts", "patternChanges"} THEN JsArr(p[f])
  ELSE IF f = "scope" THEN JsStr(p[f])
  ELSE IF f = "dependentsCount" THEN JsNum(p[f])
  ELSE JsBool(p[f])

\* ToBoolean
Truthy(v) ==
  IF v.t = "undefined" THEN FALSE
  ELSE IF v.t = "boolean" THEN v.b
  ELSE IF v.t = "number" THEN v.n # 0
  ELSE IF v.t = "string" THEN v.s # ""
  ELSE TRUE

\* x && y and x || y return one of their operands
JsAnd(x, y) == IF Truthy(x) THEN y ELSE x
JsOr(x, y) == IF Truthy(x) THEN x ELSE y

\* x === y
StrictEq(x, y) == JsBool(x.t = y.t /\ x = y)

\* x.length >= n and x.length > n for an array x, x >= n for a number x
LengthGe(x, n) == JsBool(Len(x.a) >= n)
LengthGt(x, n) == JsBool(Len(x.a) > n)
NumGe(x, n) == JsBool(x.n >= n)

(***************************************************************************)
(* isLikelyArchitectural, on a Partial<ChangeAnalysis>: a function whose   *)
(* domain is the set of properties that are present.                       *)
(***************************************************************************)
\* Mutant: more than three files asked for.
FilesClauseStrict(p) ==
  LET files == Get(p, "affectedFiles") IN JsAnd(files, LengthGt(files, 3))

\* Mutant: the files clause left out of the chain.
FilesClauseMissing(p) == JsBool(FALSE)

\* analysis.affectedFiles && analysis.affectedFiles.length >= 3
FilesClause(p) ==
  LET files == Get(p, "affectedFiles") IN JsAnd(files, LengthGe(files, 3))

\* analysis.affectedConcepts && analysis.affectedConcepts.length >= 10
ConceptsClause(p) ==
  LET concepts == Get(p, "affectedConcepts") IN JsAnd(concepts, LengthGe(concepts, 10))

\* analysis.scope === "project"
ScopeClause(p) == StrictEq(Get(p, "scope"), JsStr("project"))

\* analysis.dependentsCount && analysis.dependentsCount >= 5
DependentsClause(p) ==
  LET dependents == Get(p, "dependentsCount") IN JsAnd(dependents, NumGe(dependents, 5))

\* analysis.patternChanges && analysis.patternChanges.length > 0
PatternsClause(p) ==
  LET patterns == Get(p, "patternChanges") IN JsAnd(patterns, LengthGt(patterns, 0))

\* Mutant: the breaking-changes clause left out of the chain.
BreakingClauseMissing(p) == JsBool(FALSE)

\* analysis.breakingChanges
BreakingClause(p) == Get(p, "breakingChanges")

isLikelyArchitectural(p) ==
  LET chain ==
        JsOr(FilesClause(p),
        JsOr(ConceptsClause(p),
        JsOr(ScopeClause(p),
        JsOr(DependentsClause(p),
        JsOr(PatternsClause(p),
             BreakingClause(p))))))
  IN  [called |-> TRUE, value |-> JsBool(~ ~ Truthy(chain))]

\* Every Partial<ChangeAnalysis> over the bounded field values: each property
\* in `fields` is either absent or holds a value of its type.
Optional(S) == {<<>>} \cup {<<v>> : v \in S}

PartialChangeAnalysis(fields) ==
  LET shapes ==
        [affectedFiles : Optional(SeqsUpTo(FileNames, MaxFiles)),
         affectedConcepts : Optional(SeqsUpTo(ConceptNames, MaxConcepts)),
         scope : Optional(Scopes),
         patternChanges : Optional(SeqsUpTo(PatternNames, MaxPatterns)),
         dependentsCount : Optional(0..MaxDependents),
         breakingChanges : Optional(BOOLEAN),
         configurationChanges : Optional(BOOLEAN)]
  IN  {[f \in {g \in fields : Len(r[g]) = 1} |-> r[f][1]] : r \in shapes}

-----------------------------------------------------------------------------
(***************************************************************************)
(* extractDecisionContext                                                  *)
(***************************************************************************)
\* Array.prototype.join
RECURSIVE Join(_, _)
Join(s, sep) ==
  IF Len(s) = 0 THEN ""
  ELSE IF Len(s) = 1 THEN s[1]
  ELSE s[1] \o sep \o Join(Tail(s), sep)

\* Mutant: the scope branch tested before the pattern branch.
extractDecisionContextScopeFirst(a) ==
  LET text ==
        IF a.scope = "project"
        THEN <<"Project-wide change affecting " \o ToString(Len(a.affectedFiles))
                 \o " files",
               "Change impacts multiple modules and "
                 \o ToString(Len(a.affectedConcepts)) \o " concepts">>
        ELSE IF Len(a.patternChanges) > 0
        THEN <<"Adopted " \o Join(a.patternChanges, ", ") \o " pattern(s)",
               "Pattern detected across " \o ToString(Len(a.affectedFiles)) \o " files">>
        ELSE IF a.breakingChanges
        THEN <<"Breaking change introduced",
               "Change affects " \o ToString(a.dependentsCount) \o " dependent files">>
        ELSE <<"Structural change affecting " \o ToString(Len(a.affectedFiles))
                 \o " files",
               "Change impacts " \o ToString(Len(a.affectedConcepts))
                 \o " semantic concepts">>
  IN  [called |-> TRUE,
       decisionContext |-> text[1],
       suggestedRationale |-> text[2],
       suggestedAlternatives |-> [k \in {} |-> ""]]

extractDecisionContext(a) ==
  LET text ==
        IF Len(a.patternChanges) > 0
        THEN <<"Adopted " \o Join(a.patternChanges, ", ") \o " pattern(s)",
               "Pattern detected across " \o ToString(Len(a.affectedFiles)) \o " files">>
        ELSE IF a.scope = "project"
        THEN <<"Project-wide change affecting " \o ToString(Len(a.affectedFiles))
                 \o " files",
               "Change impacts multiple modules and "
                 \o ToString(Len(a.affectedConcepts)) \o " concepts">>
        ELSE IF a.breakingChanges
        THEN <<"Breaking change introduced",
               "Change affects " \o ToString(a.dependentsCount) \o " dependent files">>
        ELSE <<"Structural change affecting " \o ToString(Len(a.affectedFiles))
                 \o " files",
               "Change impacts " \o ToString(Len(a.affectedConcepts))
                 \o " semantic concepts">>
  IN  [called |-> TRUE,
       decisionContext |-> text[1],
       suggestedRationale |-> text[2],
       suggestedAlternatives |-> [k \in {} |-> ""]]

-----------------------------------------------------------------------------
(***************************************************************************)
(* Spec: a caller holds a complete ChangeAnalysis and calls the three      *)
(* functions that take one, in any order.                                  *)
(***************************************************************************)
EmptyAnalysis ==
  [affectedFiles |-> <<>>, affectedConcepts |-> <<>>, scope |-> "file",
   patternChanges |-> <<>>, dependentsCount |-> 0,
   breakingChanges |-> FALSE, configurationChanges |-> FALSE]

IdlePartial == partial = <<>> /\ likelyPartial = NotCalled
IdlePath == filePath = "" /\ significant = NotCalled
IdleLog == env = <<>> /\ stdout = <<>> /\ stderr = <<>> /\ lastCall = "none"
IdleScore ==
  /\ analysis = EmptyAnalysis
  /\ criteria = NotCalled
  /\ likely = NotCalled
  /\ context = NotCalled

Init ==
  /\ analysis \in ChangeAnalysis
  /\ criteria = NotCalled
  /\ likely = NotCalled
  /\ context = NotCalled
  /\ IdlePartial
  /\ IdlePath
  /\ IdleLog

Assess ==
  /\ criteria' = assessArchitecturalDecision(analysis)
  /\ UNCHANGED <<analysis, likely, context, partialVars, pathVars, logVars>>

QuickCheck ==
  /\ likely' = isLikelyArchitectural(analysis)
  /\ UNCHANGED <<analysis, criteria, context, partialVars, pathVars, logVars>>

Extract ==
  /\ context' = extractDecisionContext(analysis)
  /\ UNCHANGED <<analysis, criteria, likely, partialVars, pathVars, logVars>>

Next == Assess \/ QuickCheck \/ Extract

Spec == Init /\ [][Next]_vars

-----------------------------------------------------------------------------
(***************************************************************************)
(* SpecPartial: isLikelyArchitectural on partial analyses.                 *)
(***************************************************************************)
InitPartial ==
  /\ partial \in PartialChangeAnalysis(Fields)
  /\ likelyPartial = NotCalled
  /\ IdleScore
  /\ IdlePath
  /\ IdleLog

QuickCheckPartial ==
  /\ likelyPartial' = isLikelyArchitectural(partial)
  /\ UNCHANGED <<partial, scoreVars, pathVars, logVars>>

NextPartial == QuickCheckPartial

SpecPartial == InitPartial /\ [][NextPartial]_vars

-----------------------------------------------------------------------------
(***************************************************************************)
(* SpecGrow: starting from the empty change, assessed, the change under    *)
(* analysis grows in one field at a time and the caller assesses it again  *)
(* after each growth.                                                      *)
(***************************************************************************)
ScopeRank(s) == IF s = "file" THEN 0 ELSE IF s = "module" THEN 1 ELSE 2

InitGrow ==
  /\ analysis = EmptyAnalysis
  /\ criteria = assessArchitecturalDecision(analysis)
  /\ likely = NotCalled
  /\ context = NotCalled
  /\ IdlePartial
  /\ IdlePath
  /\ IdleLog

Reassess(field, value) ==
  /\ analysis' = [analysis EXCEPT ![field] = value]
  /\ criteria' = assessArchitecturalDecision(analysis')
  /\ UNCHANGED <<likely, context, partialVars, pathVars, logVars>>

MoreFiles ==
  \E s \in SeqsUpTo(FileNames, MaxFiles) :
    /\ Len(s) > Len(analysis.affectedFiles)
    /\ Reassess("affectedFiles", s)

MoreConcepts ==
  \E s \in SeqsUpTo(ConceptNames, MaxConcepts) :
    /\ Len(s) > Len(analysis.affectedConcepts)
    /\ Reassess("affectedConcepts", s)

MorePatterns ==
  \E s \in SeqsUpTo(PatternNames, MaxPatterns) :
    /\ Len(s) > Len(analysis.patternChanges)
    /\ Reassess("patternChanges", s)

MoreDependents ==
  \E n \in 0..MaxDependents :
    /\ n > analysis.dependentsCount
    /\ Reassess("dependentsCount", n)

WiderScope ==
  \E s \in Scopes :
    /\ ScopeRank(s) > ScopeRank(analysis.scope)
    /\ Reassess("scope", s)

BecomesBreaking ==
  /\ ~ analysis.breakingChanges
  /\ Reassess("breakingChanges", TRUE)

TouchesConfiguration ==
  /\ ~ analysis.configurationChanges
  /\ Reassess("configurationChanges", TRUE)

NextGrow ==
  \/ MoreFiles
  \/ MoreConcepts
  \/ MorePatterns
  \/ MoreDependents
  \/ WiderScope
  \/ BecomesBreaking
  \/ TouchesConfiguration

SpecGrow == InitGrow /\ [][NextGrow]_vars

-----------------------------------------------------------------------------
(***************************************************************************)
(* isArchitecturallySignificantFile                                        *)
(***************************************************************************)
architecturalIndicators ==
  << \* Configuration files
     "package.json", "tsconfig.json", "Cargo.toml", "go.mod", "pom.xml",
     "build.gradle", "pyproject.toml",
     \* Entry points
     "main.ts", "main.js", "index.ts", "index.js", "app.py", "main.rs", "main.go",
     \* Architecture files
     "architecture.md", "adr/", "docs/architecture",
     \* Core infrastructure
     "src/core/", "src/infrastructure/", "src/framework/", "lib/core/" >>

\* String.prototype.includes: a search for the first index at which t occurs.
RECURSIVE IndexOfFrom(_, _, _)
IndexOfFrom(s, t, i) ==
  IF i + Len(t) - 1 > Len(s) THEN 0
  ELSE IF SubSeq(s, i, i + Len(t) - 1) = t THEN i
  ELSE IndexOfFrom(s, t, i + 1)

Includes(s, t) == IndexOfFrom(s, t, 1) # 0

\* String.prototype.endsWith
EndsWith(s, t) ==
  /\ Len(t) <= Len(s)
  /\ SubSeq(s, Len(s) - Len(t) + 1, Len(s)) = t

\* Mutant: only the suffix test.
IndicatorMatchesSuffixOnly(path, indicator) == EndsWith(path, indicator)

\* (indicator) => filePath.includes(indicator) || filePath.endsWith(indicator)
IndicatorMatches(path, indicator) ==
  Includes(path, indicator) \/ EndsWith(path, indicator)

\* Array.prototype.some over the indicators from index i on.
RECURSIVE SomeFrom(_, _)
SomeFrom(path, i) ==
  IF i > Len(architecturalIndicators) THEN FALSE
  ELSE IF IndicatorMatches(path, architecturalIndicators[i]) THEN TRUE
  ELSE SomeFrom(path, i + 1)

isArchitecturallySignificantFile(path) ==
  [called |-> TRUE, value |-> SomeFrom(path, 1)]

\* The paths of the model: up to MaxSegments segments, one after the other.
\* The segments are directories, indicators of the catalog, and strings that
\* differ from an indicator in case, by a missing character or by a split.
MaxSegments == 2

Segments ==
  {"src/", "core/", "lib/", "docs/", "a/b/", "adr", "/", "architecture",
   ".md", "go.mod", "Go.mod", "go.", "mod", "package.json", "Package.json",
   "main.ts", "main.t", "s", "index.js", "util.ts", "README", "x"}

RECURSIVE PathsOf(_)
PathsOf(n) ==
  IF n = 0 THEN {""}
  ELSE LET shorter == PathsOf(n - 1)
       IN  shorter \cup {p \o g : p \in shorter, g \in Segments}

InitPath ==
  /\ filePath \in PathsOf(MaxSegments)
  /\ significant = NotCalled
  /\ IdleScore
  /\ IdlePartial
  /\ IdleLog

Match ==
  /\ significant' = isArchitecturallySignificantFile(filePath)
  /\ UNCHANGED <<filePath, scoreVars, partialVars, logVars>>

NextPath == Match

SpecPath == InitPath /\ [][NextPath]_vars

-----------------------------------------------------------------------------
(***************************************************************************)
(* Logger                                                                  *)
(*                                                                         *)
(* env is process.env (a function on the names that are set), stdout and   *)
(* stderr the lines written so far, lastCall the level of the last call.   *)
(***************************************************************************)
EnvNames == {"MCP_SERVER", "MCP_LOG_STREAM", "DEBUG"}
EnvValues == {"true", "false", "stdout"}
Messages == {"ready"}
Arguments == {<<"detail">>}
MaxLines == 2

\* process.env[name] === value
EnvIs(e, name, value) == name \in DOMAIN e /\ e[name] = value

isMCPServer(e) == EnvIs(e, "MCP_SERVER", "true")

formatMessage(logLevel, message) == "[" \o logLevel \o "] " \o message

\* Mutant: the MCP mode not consulted.
shouldUseStdoutAlways(e, logLevel) == TRUE

shouldUseStdout(e, logLevel) ==
  IF isMCPServer(e) THEN EnvIs(e, "MCP_LOG_STREAM", "stdout") ELSE TRUE

\* The streams after emit(logLevel, message, additionalArguments), called with
\* environment e and streams out and err.
emit(e, out, err, logLevel, message, additionalArguments) ==
  IF logLevel = "DEBUG" /\ ~ EnvIs(e, "DEBUG", "true")
  THEN [stdout |-> out, stderr |-> err]
  ELSE LET formattedMessage == formatMessage(logLevel, message)
           isErrorLevel == logLevel = "ERROR"
           logToStdout == ~ isErrorLevel /\ shouldUseStdout(e, logLevel)
           line == <<formattedMessage>> \o additionalArguments
       IN  IF logToStdout
           THEN [stdout |-> Append(out, line), stderr |-> err]
           ELSE [stdout |-> out, stderr |-> Append(err, line)]

Call(logLevel) ==
  /\ Len(stdout) + Len(stderr) < MaxLines
  /\ \E message \in Messages, additionalArguments \in Arguments :
       LET after == emit(env, stdout, stderr, logLevel, message, additionalArguments)
       IN  /\ stdout' = after.stdout
           /\ stderr' = after.stderr
  /\ lastCall' = logLevel
  /\ UNCHANGED <<env, scoreVars, partialVars, pathVars>>

error == Call("ERROR")
info == Call("INFO")
warn == Call("WARN")
debug == Call("DEBUG")

SetEnv ==
  \E name \in EnvNames, value \in EnvValues :
    /\ env' = [n \in DOMAIN env \cup {name} |-> IF n = name THEN value ELSE env[n]]
    /\ UNCHANGED <<stdout, stderr, lastCall, scoreVars, partialVars, pathVars>>

UnsetEnv ==
  \E name \in DOMAIN env :
    /\ env' = [n \in DOMAIN env \ {name} |-> env[n]]
    /\ UNCHANGED <<stdout, stderr, lastCall, scoreVars, partialVars, pathVars>>

InitLog ==
  /\ IdleLog
  /\ IdleScore
  /\ IdlePartial
  /\ IdlePath

NextLog == error \/ info \/ warn \/ debug \/ SetEnv \/ UnsetEnv

SpecLog == InitLog /\ [][NextLog]_vars

-----------------------------------------------------------------------------
(***************************************************************************)
(* The scoring table the properties are stated against: the criteria in    *)
(* evaluation order, each with its weight in hundredths.                   *)
(***************************************************************************)
CriteriaTable ==
  << [name |-> "files", cents |-> 30],
     [name |-> "concepts", cents |-> 25],
     [name |-> "project", cents |-> 30],
     [name |-> "module", cents |-> 15],
     [name |-> "dependents", cents |-> 20],
     [name |-> "patterns", cents |-> 25],
     [name |-> "breaking", cents |-> 20],
     [name |-> "configuration", cents |-> 15] >>

Fires(name, a) ==
  IF name = "files" THEN Len(a.affectedFiles) >= 3
  ELSE IF name = "concepts" THEN Len(a.affectedConcepts) >= 10
  ELSE IF name = "project" THEN a.scope = "project"
  ELSE IF name = "module" THEN a.scope = "module"
  ELSE IF name = "dependents" THEN a.dependentsCount >= 5
  ELSE IF name = "patterns" THEN Len(a.patternChanges) > 0
  ELSE IF name = "breaking" THEN a.breakingChanges
  ELSE a.configurationChanges

ReasonText(name, a) ==
  IF name = "files" THEN "Affects " \o ToString(Len(a.affectedFiles)) \o " files"
  ELSE IF name = "concepts"
  THEN "Affects " \o ToString(Len(a.affectedConcepts)) \o " semantic concepts"
  ELSE IF name = "project" THEN "Project-wide scope detected"
  ELSE IF name = "module" THEN "Module-wide scope detected"
  ELSE IF name = "dependents"
  THEN "Affects " \o ToString(a.dependentsCount) \o " dependent files"
  ELSE IF name = "patterns"
  THEN "Introduces " \o ToString(Len(a.patternChanges)) \o " pattern changes"
  ELSE IF name = "breaking" THEN "Contains breaking changes"
  ELSE "Modifies project configuration"

Triggered(a) == {i \in DOMAIN CriteriaTable : Fires(CriteriaTable[i].name, a)}

\* The sum of the triggered weights as a decimal number of hundredths.
RECURSIVE DecimalSumTo(_, _)
DecimalSumTo(a, i) ==
  IF i = 0 THEN 0
  ELSE DecimalSumTo(a, i - 1)
         + (IF i \in Triggered(a) THEN CriteriaTable[i].cents ELSE 0)

DecimalSum(a) == DecimalSumTo(a, Len(CriteriaTable))

\* The sum of the triggered weights as doubles, added in table order.
RECURSIVE DoubleSumTo(_, _)
DoubleSumTo(a, i) ==
  IF i = 0 THEN Lit(0)
  ELSE IF i \in Triggered(a)
  THEN FAdd(DoubleSumTo(a, i - 1), Lit(CriteriaTable[i].cents))
  ELSE DoubleSumTo(a, i - 1)

\* The reasons of the triggered criteria, in table order.
RECURSIVE ReasonsTo(_, _)
ReasonsTo(a, i) ==
  IF i = 0 THEN <<>>
  ELSE IF i \in Triggered(a)
  THEN Append(ReasonsTo(a, i - 1), ReasonText(CriteriaTable[i].name, a))
  ELSE ReasonsTo(a, i - 1)

RecommendationRank(r) ==
  IF r = "skip" THEN 0 ELSE IF r = "use_project_decision" THEN 1 ELSE 2

Min(x, y) == IF x <= y THEN x ELSE y

-----------------------------------------------------------------------------
\* C1: the verdict follows the sum of the triggered weights with inclusive
\* boundaries: isArchitectural iff the sum is at least 0.40, 'record' iff
\* isArchitectural, 'use_project_decision' iff the sum is at least 0.20 and
\* below 0.40, 'skip' iff it is below 0.20.  The sum is taken as the exact
\* decimal, so the double arithmetic of the code must not move a boundary.
C1_VerdictFollowsRawSum ==
  criteria.called =>
    LET S == DecimalSum(analysis)
    IN  /\ criteria.isArchitectural = (S >= 40)
        /\ (criteria.recommendation = "record") = criteria.isArchitectural
        /\ (criteria.recommendation = "use_project_decision") = (S >= 20 /\ S < 40)
        /\ (criteria.recommendation = "skip") = (S < 20)

\* A sum of exactly 0.40 reached as 0.25 + 0.15 is recorded, a sum of exactly
\* 0.20 is not skipped: here, module scope plus ten concepts.
C1_Witness ==
  /\ criteria.called
  /\ DecimalSum(analysis) = 40
  /\ analysis.scope = "module"
  /\ criteria.isArchitectural
  /\ criteria.recommendation = "record"

\* C2: the confidence returned is min(1.0, S), S the sum of the triggered
\* weights added in evaluation order; it is the decimal sum capped at 1.00 up
\* to a rounding error below 2^-52, lies in [0,1], is 0 when nothing triggers
\* and 1.0 when every criterion triggers.
C2_ConfidenceIsClampedSum ==
  criteria.called =>
    LET c == criteria.confidence
    IN  /\ c = FMin(Lit(100), DoubleSumTo(analysis, Len(CriteriaTable)))
        /\ c.cent = Min(100, DecimalSum(analysis))
        /\ c.err > -800 /\ c.err < 800
        /\ FGe(c, Lit(0)) /\ FGe(Lit(100), c)
        /\ (Triggered(analysis) = {} => c = Lit(0))
        /\ (DecimalSum(analysis) = 165 => c = Lit(100))

\* Every criterion has triggered (raw 1.65) and the confidence is 1.0.
C2_Witness ==
  /\ criteria.called
  /\ DecimalSum(analysis) = 165
  /\ criteria.confidence = Lit(100)

\* C3: reasons holds exactly one entry per triggered criterion, in the fixed
\* evaluation order, and none for the others: its length is the number of
\* triggered criteria, at most 7, and it is empty iff nothing triggers.
C3_ReasonsAreTriggeredCriteria ==
  criteria.called =>
    /\ criteria.reasons = ReasonsTo(analysis, Len(CriteriaTable))
    /\ Len(criteria.reasons) = Cardinality(Triggered(analysis))
    /\ Len(criteria.reasons) <= 7
    /\ (criteria.reasons = <<>>) = (Triggered(analysis) = {})

\* All seven reasons are present for a project-wide change.
C3_Witness ==
  /\ criteria.called
  /\ Len(criteria.reasons) = 7
  /\ analysis.scope = "project"

\* C4: when the analysis grows in a field and shrinks in none, the confidence
\* does not decrease and the recommendation is not demoted.
Grew(a, b) ==
  /\ a # b
  /\ Len(b.affectedFiles) >= Len(a.affectedFiles)
  /\ Len(b.affectedConcepts) >= Len(a.affectedConcepts)
  /\ Len(b.patternChanges) >= Len(a.patternChanges)
  /\ b.dependentsCount >= a.dependentsCount
  /\ ScopeRank(b.scope) >= ScopeRank(a.scope)
  /\ (a.breakingChanges => b.breakingChanges)
  /\ (a.configurationChanges => b.configurationChanges)

C4_Monotone ==
  [][Grew(analysis, analysis') =>
       /\ FGe(criteria'.confidence, criteria.confidence)
       /\ RecommendationRank(criteria'.recommendation)
            >= RecommendationRank(criteria.recommendation)]_vars

\* A change that has grown to project scope with three files and is recorded.
C4_Witness ==
  /\ analysis # EmptyAnalysis
  /\ analysis.scope = "project"
  /\ Len(analysis.affectedFiles) = 3
  /\ criteria.recommendation = "record"

\* C5: on a partial analysis isLikelyArchitectural returns a boolean, true iff
\* a clause holds whose field is present; nothing present gives false and
\* scope = 'project' alone gives true.
Present(f) == f \in DOMAIN partial

C5_ExpectedLikely ==
  \/ (Present("affectedFiles") /\ Len(partial.affectedFiles) >= 3)
  \/ (Present("affectedConcepts") /\ Len(partial.affectedConcepts) >= 10)
  \/ (Present("scope") /\ partial.scope = "project")
  \/ (Present("dependentsCount") /\ partial.dependentsCount >= 5)
  \/ (Present("patternChanges") /\ Len(partial.patternChanges) > 0)
  \/ (Present("breakingChanges") /\ partial.breakingChanges)

C5_PartialFastPath ==
  likelyPartial.called =>
    /\ likelyPartial.value.t = "boolean"
    /\ likelyPartial.value.b = C5_ExpectedLikely
    /\ (DOMAIN partial = {} => ~ likelyPartial.value.b)
    /\ (DOMAIN partial = {"scope"} /\ partial.scope = "project"
          => likelyPartial.value.b)

\* Only scope is present, it is 'project', and the answer is true.
C5_Witness ==
  /\ likelyPartial.called
  /\ DOMAIN partial = {"scope"}
  /\ partial.scope = "project"
  /\ likelyPartial.value = JsBool(TRUE)

\* C6 as claimed: on a complete analysis isLikelyArchitectural is true iff the
\* reasons list of assessArchitecturalDecision is non-empty.
C6_Original ==
  (criteria.called /\ likely.called) =>
    (likely.value.b = (criteria.reasons # <<>>))

\* C6 as amended: isLikelyArchitectural is true iff a scoring criterion other
\* than module scope and configuration changes triggers, that is iff reasons
\* holds an entry other than those two; so a true answer implies a non-empty
\* reasons list, not the converse.
SlowPathOnly ==
  {"Module-wide scope detected", "Modifies project configuration"}

C6_FastPathIsOrOfSixCriteria ==
  (criteria.called /\ likely.called) =>
    /\ likely.value.t = "boolean"
    /\ likely.value.b =
         (\E i \in DOMAIN criteria.reasons : criteria.reasons[i] \notin SlowPathOnly)
    /\ (likely.value.b => criteria.reasons # <<>>)

\* Breaking changes alone: one reason and a true fast path.
C6_Witness ==
  /\ criteria.called
  /\ likely.called
  /\ criteria.reasons = <<"Contains breaking changes">>
  /\ likely.value = JsBool(TRUE)

\* C7: extractDecisionContext emits the text of the first matching branch in
\* the order patterns, project scope, breaking changes, default, and
\* suggestedAlternatives is the empty mapping.
RECURSIVE NamesList(_)
NamesList(s) ==
  IF Len(s) = 1 THEN s[1]
  ELSE NamesList(SubSeq(s, 1, Len(s) - 1)) \o ", " \o s[Len(s)]

C7_FirstMatchingBranch ==
  context.called =>
    LET a == analysis
        files == ToString(Len(a.affectedFiles))
        concepts == ToString(Len(a.affectedConcepts))
        patterns == Len(a.patternChanges) > 0
        project == a.scope = "project"
    IN  /\ patterns =>
             /\ context.decisionContext
                  = "Adopted " \o NamesList(a.patternChanges) \o " pattern(s)"
             /\ context.suggestedRationale
                  = "Pattern detected across " \o files \o " files"
        /\ (~ patterns /\ project) =>
             /\ context.decisionContext
                  = "Project-wide change affecting " \o files \o " files"
             /\ context.suggestedRationale
                  = "Change impacts multiple modules and " \o concepts \o " concepts"
        /\ (~ patterns /\ ~ project /\ a.breakingChanges) =>
             /\ context.decisionContext = "Breaking change introduced"
             /\ context.suggestedRationale
                  = "Change affects " \o ToString(a.dependentsCount)
                      \o " dependent files"
        /\ (~ patterns /\ ~ project /\ ~ a.breakingChanges) =>
             /\ context.decisionContext
                  = "Structural change affecting " \o files \o " files"
             /\ context.suggestedRationale
                  = "Change impacts " \o concepts \o " semantic concepts"
        /\ DOMAIN context.suggestedAlternatives = {}

\* Patterns, project scope and breaking changes together: the pattern branch.
C7_Witness ==
  /\ context.called
  /\ analysis.patternChanges = <<"Factory", "Factory">>
  /\ analysis.scope = "project"
  /\ analysis.breakingChanges
  /\ context.decisionContext = "Adopted Factory, Factory pattern(s)"

\* C8: isArchitecturallySignificantFile is true iff the path contains an
\* indicator of the catalog as a contiguous, case-sensitive substring; the
\* ends-with test adds nothing; a path ending in a manifest name matches.
Indicators == {architecturalIndicators[i] : i \in DOMAIN architecturalIndicators}
Manifests == {architecturalIndicators[i] : i \in 1..7}

Occurs(s, t) ==
  \E i \in 1..Len(s) : i + Len(t) - 1 <= Len(s) /\ SubSeq(s, i, i + Len(t) - 1) = t

Suffix(s, t) == \E k \in 0..Len(s) : SubSeq(s, k + 1, Len(s)) = t

C8_SignificantIffContainsIndicator ==
  significant.called =>
    /\ significant.value
         = (\E t \in Indicators : Occurs(filePath, t) \/ Suffix(filePath, t))
    /\ significant.value = (\E t \in Indicators : Occurs(filePath, t))
    /\ ((\E t \in Manifests : Suffix(filePath, t)) => significant.value)

\* A manifest nested under directories is matched.
C8_Witness ==
  /\ significant.called
  /\ significant.value
  /\ filePath = "a/b/package.json"

\* C9: a Logger call made while MCP_SERVER is 'true' and MCP_LOG_STREAM is not
\* 'stdout' leaves stdout alone: info and warn write one line to stderr, debug
\* writes one line to stderr when DEBUG is 'true' and nothing otherwise; and
\* Logger.error writes its line to stderr in every environment.
QuietMCP(e) == EnvIs(e, "MCP_SERVER", "true") /\ ~ EnvIs(e, "MCP_LOG_STREAM", "stdout")

C9_StdoutKeptForProtocol ==
  [][/\ QuietMCP(env) => stdout' = stdout
     /\ (QuietMCP(env) /\ (info \/ warn)) => Len(stderr') = Len(stderr) + 1
     /\ (QuietMCP(env) /\ debug) =>
          IF EnvIs(env, "DEBUG", "true")
          THEN Len(stderr') = Len(stderr) + 1
          ELSE stderr' = stderr
     /\ error =>
          /\ stdout' = stdout
          /\ Len(stderr') = Len(stderr) + 1
          /\ \E m \in Messages : stderr'[Len(stderr')][1] = "[ERROR] " \o m]_vars

\* In MCP mode an INFO line and an ERROR line are both on stderr, none on stdout.
C9_Witness ==
  /\ QuietMCP(env)
  /\ stdout = <<>>
  /\ \E i \in DOMAIN stderr : stderr[i][1] = "[INFO] ready"
  /\ \E i \in DOMAIN stderr : stderr[i][1] = "[ERROR] ready"

\* C10: whatever assessArchitecturalDecision records, isLikelyArchitectural
\* flags: isArchitectural = true implies the fast path is true.
C10_FastPathCoversRecord ==
  (criteria.called /\ likely.called /\ criteria.isArchitectural) =>
    /\ criteria.recommendation = "record"
    /\ likely.value = JsBool(TRUE)

\* Recorded with a single fast-path criterion: three files in a module-wide,
\* otherwise empty change (0.30 + 0.15).
C10_Witness ==
  /\ criteria.called
  /\ likely.called
  /\ criteria.isArchitectural
  /\ likely.value = JsBool(TRUE)
  /\ DecimalSum(analysis) = 45
  /\ analysis.scope = "module"
  /\ Len(analysis.affectedFiles) = 3

====
